---- MODULE Spec2Model ----
(***************************************************************************)
(* Model of the contest harvesting pipeline of src/main.rs:                *)
(*   - main: the per-contest clone / compile loop,                         *)
(*   - get_active_contests / is_active_and_public: listing extraction and  *)
(*     the eligibility filter,                                             *)
(*   - read_remappings_file: the remapping resolver,                       *)
(*   - get_contracts_bytecodes: bytecode extraction.                       *)
(* Strings are sequences of one-character strings.  Option<T> values are   *)
(* records tagged "None" / "Some".                                         *)
(***************************************************************************)
EXTENDS Integers, Sequences, FiniteSets, TLC

VARIABLES
    \* ---- main ----
    contests,       \* Vec<Contest> returned by get_active_contests
    idx,            \* position of the for loop in contests (1-based)
    pc,             \* where main is: "loop","clone","acquired","compile","done","aborted"
    clones,         \* the ./clones directory: repository name -> directory state
    stage,          \* per contest: what has happened to it so far
    cloneCalls,     \* per contest: number of clone_repo invocations
    compileCalls,   \* per contest: number of compile_contracts_from_repo invocations
    cloneResult,    \* per contest: "none","ok","err","panic"
    reused,         \* per contest: the directory already existed at the metadata check
    populated,      \* per repository name: clones that left contents in the directory
    \* ---- get_active_contests ----
    scripts,        \* the page's script blocks, in document order
    records,        \* the elements of the payload's contest array
    now,            \* the clock (what Utc::now() returns when read)
    startNow,       \* the clock reading when the filtering pass started
    fpc,            \* "scan","filter","returned","panicked"
    fpos,           \* position of the iterator chain in records (1-based)
    selected,       \* indices of the records collected so far
    evalAt,         \* per examined record: the clock reading it was compared with
    panicAt,        \* index of the record whose examination panicked, 0 if none
    \* ---- read_remappings_file ----
    file_path,      \* the argument: path of the remapping file
    file,           \* the file on disk: None, or Some(its text)
    rpc,            \* "ready","returned","panicked"
    remappings,     \* the Vec<Remapping> returned
    \* ---- get_contracts_bytecodes ----
    artifacts,      \* the Contracts map: file name -> contract name -> Contract
    filename,       \* the argument: the file name looked up
    bpc,            \* "ready","returned"
    bytecodes       \* the Option<Vec<(String, String)>> returned

mainVars == <<contests, idx, pc, clones, stage, cloneCalls, compileCalls,
              cloneResult, reused, populated>>

filterVars == <<scripts, records, now, startNow, fpc, fpos, selected, evalAt, panicAt>>

remapVars == <<file_path, file, rpc, remappings>>

bytecodeVars == <<artifacts, filename, bpc, bytecodes>>

vars == <<mainVars, filterVars, remapVars, bytecodeVars>>

None == [tag |-> "None"]

Some(v) == [tag |-> "Some", val |-> v]

\* ------------------------------------------------------------------------
\* Bounds
\* ------------------------------------------------------------------------
MaxContests == 2

MaxScripts == 2

MaxRecords == 2

MaxClock == 2

MaxFileLen == 5

\* ------------------------------------------------------------------------
\* Generic helpers
\* ------------------------------------------------------------------------
SeqsUpTo(S, n) == UNION { [1..k -> S] : k \in 0..n }

\* ------------------------------------------------------------------------
\* main
\* ------------------------------------------------------------------------
RepoUrls == { <<"a", "/", "r">>, <<"b", "/", "r">>, <<"a", "/", "s">> }

LastSlash(s) ==
    LET at == { i \in 1..Len(s) : s[i] = "/" }
    IN  IF at = {} THEN 0 ELSE CHOOSE i \in at : \A j \in at : j <= i

\* repo_url.split('/').last(): the text after the last '/'
RepoName(url) == SubSeq(url, LastSlash(url) + 1, Len(url))

RepoNames == { RepoName(u) : u \in RepoUrls }

Absent == [exists |-> FALSE, src |-> FALSE, remap |-> FALSE]

\* a directory under ./clones: whether it holds Solidity sources under src/
\* and whether it holds remappings.txt
PresentDirs == { [exists |-> TRUE, src |-> s, remap |-> m] : s \in BOOLEAN, m \in BOOLEAN }

DirStates == {Absent} \cup PresentDirs

\* the listing extractor is not running
IdleFilter ==
    /\ scripts = <<>>
    /\ records = <<>>
    /\ now = 0
    /\ startNow = 0
    /\ fpc = "returned"
    /\ fpos = 1
    /\ selected = <<>>
    /\ evalAt = <<>>
    /\ panicAt = 0

\* read_remappings_file is not running
IdleRemap ==
    /\ file_path = <<>>
    /\ file = None
    /\ rpc = "returned"
    /\ remappings = <<>>

\* get_contracts_bytecodes is not running
IdleBytecode ==
    /\ artifacts = <<>>
    /\ filename = ""
    /\ bpc = "returned"
    /\ bytecodes = None

MainContests == { [repo |-> None] } \cup { [repo |-> Some(u)] : u \in RepoUrls }

InitMain ==
    /\ contests \in SeqsUpTo(MainContests, MaxContests)
    /\ idx = 1
    /\ pc = "loop"
    /\ clones \in [RepoNames -> DirStates]
    /\ stage = [i \in 1..Len(contests) |-> "pending"]
    /\ cloneCalls = [i \in 1..Len(contests) |-> 0]
    /\ compileCalls = [i \in 1..Len(contests) |-> 0]
    /\ cloneResult = [i \in 1..Len(contests) |-> "none"]
    /\ reused = [i \in 1..Len(contests) |-> FALSE]
    /\ populated = [n \in RepoNames |-> 0]
    /\ IdleFilter
    /\ IdleRemap
    /\ IdleBytecode

\* variant: the directory test is left out and every contest is cloned
NeedsCloneAlways(dir) == TRUE

\* line 333: std::fs::metadata(&local_path).is_err()
NeedsClone(dir) == ~dir.exists

\* variant: a failed clone is tried again instead of moving on
RetrySameContest(i) == i

\* line 342: `continue` after clone_repo returned Err
IdxAfterCloneErr(i) == i + 1

\* lines 339, 344: both arms only print, control falls through to line 348
PcAfterClone(outcome) == IF outcome = "err" THEN "loop" ELSE "acquired"

\* what a clone_repo call can leave on disk: a successful clone leaves the
\* directory; a failed or panicking one may have removed it again or may
\* leave what it had written (e.g. a submodule update that failed)
CloneLeaves(outcome) == IF outcome = "ok" THEN PresentDirs ELSE DirStates

\* lines 326-333: take the next contest, derive local_path, test the directory
LoopBegin ==
    /\ pc = "loop"
    /\ idx <= Len(contests)
    /\ IF contests[idx].repo = None
       THEN \* line 327: contest.repo.as_ref().unwrap() panics
            /\ pc' = "aborted"
            /\ stage' = [stage EXCEPT ![idx] = "panicked"]
            /\ UNCHANGED <<cloneCalls, reused>>
       ELSE LET name == RepoName(contests[idx].repo.val)
            IN  IF NeedsClone(clones[name])
                THEN /\ pc' = "clone"
                     /\ stage' = [stage EXCEPT ![idx] = "acquiring"]
                     /\ cloneCalls' = [cloneCalls EXCEPT ![idx] = @ + 1]
                     /\ UNCHANGED reused
                ELSE /\ pc' = "acquired"
                     /\ stage' = [stage EXCEPT ![idx] = "acquired"]
                     /\ reused' = [reused EXCEPT ![idx] = TRUE]
                     /\ UNCHANGED cloneCalls
    /\ UNCHANGED <<contests, idx, clones, compileCalls, cloneResult, populated>>

\* lines 334-346: clone_repo returns (or panics and the panic is caught)
CloneReturn ==
    /\ pc = "clone"
    /\ \E outcome \in {"ok", "err", "panic"} :
       \E left \in CloneLeaves(outcome) :
         LET name == RepoName(contests[idx].repo.val)
         IN  /\ clones' = [clones EXCEPT ![name] = left]
             /\ populated' = [populated EXCEPT
                                ![name] = IF left.exists THEN @ + 1 ELSE @]
             /\ cloneResult' = [cloneResult EXCEPT ![idx] = outcome]
             /\ pc' = PcAfterClone(outcome)
             /\ IF PcAfterClone(outcome) = "loop"
                THEN /\ stage' = [stage EXCEPT ![idx] = "skipped"]
                     /\ idx' = IdxAfterCloneErr(idx)
                ELSE /\ stage' = [stage EXCEPT ![idx] = "acquired"]
                     /\ idx' = idx
    /\ UNCHANGED <<contests, cloneCalls, compileCalls, reused>>

\* lines 348-350: compile_contracts_from_repo is called
CompileStart ==
    /\ pc = "acquired"
    /\ pc' = "compile"
    /\ stage' = [stage EXCEPT ![idx] = "compiling"]
    /\ compileCalls' = [compileCalls EXCEPT ![idx] = @ + 1]
    /\ UNCHANGED <<contests, idx, clones, cloneCalls, cloneResult, reused, populated>>

\* lines 302-316: how one call of compile_contracts_from_repo ends.
\*   "input_err"   CompilerInput::new(contracts_path)? returns the error
\*   "panic"       read_remappings_file's expect (remappings.txt unreadable)
\*                 or input[0] on an empty input list
\*   "ok" / "err"  what solc.compile(&input)? yields
CompileOutcomes(dir) ==
    {"input_err"} \cup
    (IF ~(dir.exists /\ dir.remap) THEN {"panic"}
     ELSE IF ~(dir.exists /\ dir.src) THEN {"panic"}
     ELSE {"ok", "err"})

\* line 350 returning, then the end of the loop body (line 365)
CompileReturn ==
    /\ pc = "compile"
    /\ \E outcome \in CompileOutcomes(clones[RepoName(contests[idx].repo.val)]) :
         IF outcome = "panic"
         THEN /\ pc' = "aborted"
              /\ stage' = [stage EXCEPT ![idx] = "panicked"]
              /\ idx' = idx
         ELSE /\ pc' = "loop"
              /\ stage' = [stage EXCEPT ![idx] = "processed"]
              /\ idx' = idx + 1
    /\ UNCHANGED <<contests, clones, cloneCalls, compileCalls, cloneResult,
                   reused, populated>>

\* line 366: the list is exhausted, main returns
LoopEnd ==
    /\ pc = "loop"
    /\ idx > Len(contests)
    /\ pc' = "done"
    /\ UNCHANGED <<contests, idx, clones, stage, cloneCalls, compileCalls,
                   cloneResult, reused, populated>>

NextMain ==
    \/ LoopBegin /\ UNCHANGED <<filterVars, remapVars, bytecodeVars>>
    \/ CloneReturn /\ UNCHANGED <<filterVars, remapVars, bytecodeVars>>
    \/ CompileStart /\ UNCHANGED <<filterVars, remapVars, bytecodeVars>>
    \/ CompileReturn /\ UNCHANGED <<filterVars, remapVars, bytecodeVars>>
    \/ LoopEnd /\ UNCHANGED <<filterVars, remapVars, bytecodeVars>>

SpecMain == InitMain /\ [][NextMain]_vars

\* ------------------------------------------------------------------------
\* get_active_contests / is_active_and_public
\* ------------------------------------------------------------------------

\* A script block after trim_start_matches("self.__next_f.push"):
\*   "other"    does not start with the marker ([1,"f:
\*   "garbage"  starts with the marker, the recovered text is not JSON
\*   "noarray"  starts with the marker, the JSON has no array at
\*              children[3].children[3].contests
\*   "array"    starts with the marker, the JSON carries the contest array
ScriptBlocks == {"other", "garbage", "noarray", "array"}

\* line 105: contest_blob.starts_with("([1,\"f:")
HasMarker(block) == block # "other"

\* lines 101-109: cleaned_json after the loop; every matching block
\* overwrites it, "" when none matched
RECURSIVE CleanedJson(_)
CleanedJson(blocks) ==
    IF blocks = <<>> THEN "empty"
    ELSE IF HasMarker(blocks[Len(blocks)]) THEN blocks[Len(blocks)]
    ELSE CleanedJson(SubSeq(blocks, 1, Len(blocks) - 1))

\* line 111: serde_json::from_str(&cleaned_json)
ParsesAsJson(text) == text \in {"noarray", "array"}

\* end_time strings.  An RFC 3339 string carries a local time and a UTC
\* offset; a naive string carries a local time only.
Rfc3339Strings ==
    { [kind |-> "rfc3339", local |-> 1, offset |-> 0],
      [kind |-> "rfc3339", local |-> 2, offset |-> 1],
      [kind |-> "rfc3339", local |-> 2, offset |-> 0] }

NaiveStrings == { [kind |-> "naive", local |-> 2] }

EndTimes == {None} \cup { Some(t) : t \in Rfc3339Strings \cup NaiveStrings }

CodeAccesses == { None, Some("public"), Some("private") }

\* elements of the contest array: sponsor_data is the only field of Contest
\* that is not an Option (lines 30-58)
ValidElements ==
    { [sponsor_data |-> TRUE, end_time |-> e, code_access |-> c] :
        e \in EndTimes, c \in CodeAccesses }

InvalidElements ==
    { [sponsor_data |-> FALSE, end_time |-> Some([kind |-> "rfc3339", local |-> 2, offset |-> 0]),
       code_access |-> Some("public")] }

Elements == ValidElements \cup InvalidElements

\* line 119: serde_json::from_value(contest.clone()).ok()
Deserializes(element) == element.sponsor_data

\* line 134: DateTime::parse_from_rfc3339; the instant is the local time
\* moved back by the offset
ParseRfc3339(str) ==
    IF str.kind = "rfc3339"
    THEN [tag |-> "Ok", val |-> str.local - str.offset]
    ELSE [tag |-> "Err"]

\* variant: a contest ending exactly now still counts as active
AfterOrAt(end, current) == end >= current

\* line 136: end_time > current_time
After(end, current) == end > current

\* lines 131-137: "true" / "false" for Ok(bool), "err" for Err(ParseError),
\* "panic" for an unwrap of None
is_active_and_public(contest, current_time) ==
    IF contest.end_time = None THEN "panic"
    ELSE LET parsed == ParseRfc3339(contest.end_time.val)
         IN  IF parsed.tag = "Err" THEN "err"
             ELSE IF ~After(parsed.val, current_time) THEN "false"
             ELSE IF contest.code_access = None THEN "panic"
             ELSE IF contest.code_access.val = "public" THEN "true"
             ELSE "false"

\* line 120: .unwrap_or(false)
UnwrapOrFalse(res) == res = "true"

\* main has not started
IdleMain ==
    /\ contests = <<>>
    /\ idx = 1
    /\ pc = "loop"
    /\ clones = [n \in RepoNames |-> Absent]
    /\ stage = <<>>
    /\ cloneCalls = <<>>
    /\ compileCalls = <<>>
    /\ cloneResult = <<>>
    /\ reused = <<>>
    /\ populated = [n \in RepoNames |-> 0]

InitFilter ==
    /\ IdleMain
    /\ IdleRemap
    /\ IdleBytecode
    /\ scripts \in SeqsUpTo(ScriptBlocks, MaxScripts)
    /\ records \in IF CleanedJson(scripts) = "array"
                   THEN SeqsUpTo(Elements, MaxRecords)
                   ELSE {<<>>}
    /\ now \in 0..MaxClock
    /\ startNow = 0
    /\ fpc = "scan"
    /\ fpos = 1
    /\ selected = <<>>
    /\ evalAt = <<>>
    /\ panicAt = 0

\* lines 97-117: fetch the page, find the payload, parse it, reach the array
ScanScripts ==
    /\ fpc = "scan"
    /\ startNow' = now
    /\ LET text == CleanedJson(scripts)
       IN  IF ~ParsesAsJson(text)
           THEN fpc' = "returned"      \* Err arm, lines 124-127: Vec::new()
           ELSE IF text = "noarray"
           THEN fpc' = "panicked"      \* line 117: as_array().unwrap()
           ELSE fpc' = "filter"
    /\ UNCHANGED <<scripts, records, now, fpos, selected, evalAt, panicAt>>

\* lines 118-121: one element goes through filter_map and filter
FilterStep ==
    /\ fpc = "filter"
    /\ fpos <= Len(records)
    /\ evalAt' = Append(evalAt, now)
    /\ IF ~Deserializes(records[fpos])
       THEN /\ fpos' = fpos + 1
            /\ UNCHANGED <<fpc, selected, panicAt>>
       ELSE LET res == is_active_and_public(records[fpos], now)
            IN  IF res = "panic"
                THEN /\ fpc' = "panicked"
                     /\ panicAt' = fpos
                     /\ UNCHANGED <<fpos, selected>>
                ELSE /\ fpos' = fpos + 1
                     /\ selected' = IF UnwrapOrFalse(res)
                                    THEN Append(selected, fpos)
                                    ELSE selected
                     /\ UNCHANGED <<fpc, panicAt>>
    /\ UNCHANGED <<scripts, records, now, startNow>>

\* lines 121-122: collect() and return
FilterEnd ==
    /\ fpc = "filter"
    /\ fpos > Len(records)
    /\ fpc' = "returned"
    /\ UNCHANGED <<scripts, records, now, startNow, fpos, selected, evalAt, panicAt>>

\* the wall clock advances while get_active_contests runs
Tick ==
    /\ fpc \in {"scan", "filter"}
    /\ now < MaxClock
    /\ now' = now + 1
    /\ UNCHANGED <<scripts, records, startNow, fpc, fpos, selected, evalAt, panicAt>>

NextFilter ==
    \/ ScanScripts /\ UNCHANGED <<mainVars, remapVars, bytecodeVars>>
    \/ FilterStep /\ UNCHANGED <<mainVars, remapVars, bytecodeVars>>
    \/ FilterEnd /\ UNCHANGED <<mainVars, remapVars, bytecodeVars>>
    \/ Tick /\ UNCHANGED <<mainVars, remapVars, bytecodeVars>>

SpecFilter == InitFilter /\ [][NextFilter]_vars

\* ------------------------------------------------------------------------
\* read_remappings_file
\* ------------------------------------------------------------------------
FileChars == {"a", "=", " ", "\n"}

FilePaths == { <<"d", "/", "f">>, <<"e", "/", "d", "/", "f">>, <<"f">> }

IsSpace(c) == c \in {" ", "\n"}

\* str::split(ch): every occurrence of ch separates two parts
RECURSIVE Split(_, _)
Split(str, ch) ==
    LET at == { i \in 1..Len(str) : str[i] = ch }
    IN  IF at = {} THEN <<str>>
        ELSE LET i == CHOOSE k \in at : \A j \in at : k <= j
             IN  <<SubSeq(str, 1, i - 1)>> \o Split(SubSeq(str, i + 1, Len(str)), ch)

\* variant, str::splitn(2, ch): only the first occurrence of ch separates
SplitFirst(str, ch) ==
    LET at == { i \in 1..Len(str) : str[i] = ch }
    IN  IF at = {} THEN <<str>>
        ELSE LET i == CHOOSE k \in at : \A j \in at : k <= j
             IN  <<SubSeq(str, 1, i - 1), SubSeq(str, i + 1, Len(str))>>

\* line 282: line.trim().split('=')
SplitLine(str, ch) == Split(str, ch)

\* str::lines(): split at line feeds, no empty last line
Lines(text) ==
    LET parts == Split(text, "\n")
    IN  IF parts[Len(parts)] = <<>> THEN SubSeq(parts, 1, Len(parts) - 1) ELSE parts

\* str::trim()
RECURSIVE Trim(_)
Trim(str) ==
    IF str = <<>> THEN <<>>
    ELSE IF IsSpace(str[1]) THEN Trim(Tail(str))
    ELSE IF IsSpace(str[Len(str)]) THEN Trim(SubSeq(str, 1, Len(str) - 1))
    ELSE str

\* lines 272-277: Path::new(file_path).parent(): the path without its last
\* component, "" for a bare file name
Parent(path) ==
    IF LastSlash(path) = 0 THEN <<>>
    ELSE IF LastSlash(path) = 1 THEN <<"/">>
    ELSE SubSeq(path, 1, LastSlash(path) - 1)

\* lines 279-293: the loop over the lines
RECURSIVE RemappingsOf(_, _)
RemappingsOf(lines, dir) ==
    IF lines = <<>> THEN <<>>
    ELSE LET parts == SplitLine(Trim(lines[1]), "=")
             rest  == RemappingsOf(Tail(lines), dir)
         IN  IF Len(parts) = 2
             THEN <<[name |-> Trim(parts[1]),
                     path |-> dir \o <<"/">> \o Trim(parts[2])]>> \o rest
             ELSE rest

\* lines 268-294
read_remappings_file(text, path) == RemappingsOf(Lines(text), Parent(path))

InitRemap ==
    /\ IdleMain
    /\ IdleFilter
    /\ IdleBytecode
    /\ file_path \in FilePaths
    /\ file \in {None} \cup { Some(t) : t \in SeqsUpTo(FileChars, MaxFileLen) }
    /\ rpc = "ready"
    /\ remappings = <<>>

\* one call of read_remappings_file
ReadRemappings ==
    /\ rpc = "ready"
    /\ IF file = None
       THEN \* line 270: expect("Failed to read remappings file")
            /\ rpc' = "panicked"
            /\ UNCHANGED remappings
       ELSE /\ rpc' = "returned"
            /\ remappings' = read_remappings_file(file.val, file_path)
    /\ UNCHANGED <<file_path, file>>

NextRemap ==
    \/ ReadRemappings /\ UNCHANGED <<mainVars, filterVars, bytecodeVars>>

SpecRemap == InitRemap /\ [][NextRemap]_vars

\* ------------------------------------------------------------------------
\* get_contracts_bytecodes
\* ------------------------------------------------------------------------
FileNames == {"A.sol", "B.sol"}

QueryNames == FileNames \cup {"C.sol"}

\* contract names in the order a BTreeMap iterates them
NameOrder == <<"Bar", "Foo">>

ContractNames == { NameOrder[k] : k \in 1..Len(NameOrder) }

ByteStrings == { <<>>, <<222, 173>>, <<10>> }

\* Contract values: evm absent, evm without bytecode, an unlinked bytecode
\* object, a linked one
ContractValues ==
    { [evm |-> None],
      [evm |-> Some([bytecode |-> None])],
      [evm |-> Some([bytecode |-> Some([object |-> "Unlinked"])])] }
    \cup { [evm |-> Some([bytecode |-> Some([object |-> "Bytecode", bytes |-> b])])] :
             b \in ByteStrings }

PartialMaps(D, R) == UNION { [S -> R] : S \in SUBSET D }

HexDigits == <<"0", "1", "2", "3", "4", "5", "6", "7",
               "8", "9", "a", "b", "c", "d", "e", "f">>

\* hex::encode: two lower-case digits per byte, high nibble first
RECURSIVE HexEncode(_)
HexEncode(bytes) ==
    IF bytes = <<>> THEN <<>>
    ELSE <<HexDigits[(bytes[1] \div 16) + 1], HexDigits[(bytes[1] % 16) + 1]>>
         \o HexEncode(Tail(bytes))

\* lines 245-256: what one contract contributes
BytecodeOf(name, contract) ==
    IF contract.evm = None THEN None
    ELSE IF contract.evm.val.bytecode = None THEN None
    ELSE IF contract.evm.val.bytecode.val.object = "Bytecode"
         THEN Some(<<name, HexEncode(contract.evm.val.bytecode.val.bytes)>>)
         ELSE None

\* lines 242-258: filter_map over the file's contracts, in key order
RECURSIVE CollectBytecodes(_, _)
CollectBytecodes(names, file_contracts) ==
    IF names = <<>> THEN <<>>
    ELSE LET rest == CollectBytecodes(Tail(names), file_contracts)
         IN  IF names[1] \in DOMAIN file_contracts
                  /\ BytecodeOf(names[1], file_contracts[names[1]]) # None
             THEN <<BytecodeOf(names[1], file_contracts[names[1]]).val>> \o rest
             ELSE rest

\* variant: the emptiness test is left out
AlwaysSome(list) == Some(list)

\* lines 260-265: Some only for a non-empty list
SomeIfNotEmpty(list) == IF list # <<>> THEN Some(list) ELSE None

\* lines 238-266
get_contracts_bytecodes(contracts, name) ==
    IF name \in DOMAIN contracts
    THEN SomeIfNotEmpty(CollectBytecodes(NameOrder, contracts[name]))
    ELSE None

InitBytecode ==
    /\ IdleMain
    /\ IdleFilter
    /\ IdleRemap
    /\ artifacts \in PartialMaps(FileNames, PartialMaps(ContractNames, ContractValues))
    /\ filename \in QueryNames
    /\ bpc = "ready"
    /\ bytecodes = None

\* one call of get_contracts_bytecodes
GetBytecodes ==
    /\ bpc = "ready"
    /\ bpc' = "returned"
    /\ bytecodes' = get_contracts_bytecodes(artifacts, filename)
    /\ UNCHANGED <<artifacts, filename>>

NextBytecode ==
    \/ GetBytecodes /\ UNCHANGED <<mainVars, filterVars, remapVars>>

SpecBytecode == InitBytecode /\ [][NextBytecode]_vars

\* ------------------------------------------------------------------------
\* Properties of main
\* ------------------------------------------------------------------------
Contests == 1..Len(contests)

DirOf(i) == RepoName(contests[i].repo.val)

\* C1: whatever the contests and whatever recoverable failure each one meets
\* (no repository reference, clone denied, remappings.txt absent, compiler
\* failure), main never aborts: every contest ends processed or skipped and
\* the loop reaches the end of the list.
C1_RunNeverAborts ==
    /\ pc # "aborted"
    /\ \A i \in Contests : stage[i] # "panicked"
    /\ pc = "done" => \A i \in Contests : stage[i] \in {"processed", "skipped"}

\* C2: a contest whose clone failed, by an error returned from clone_repo or
\* by a caught panic, is skipped: compile_contracts_from_repo is never invoked
\* for it and the process does not crash.
C2_FailedCloneIsSkipped ==
    \A i \in Contests :
        cloneResult[i] \in {"err", "panic"} =>
            /\ compileCalls[i] = 0
            /\ stage[i] # "panicked"

\* C3: the clone step is idempotent per repository name: clone_repo is only
\* ever running on a directory that does not exist, a contest that found its
\* directory present goes on to compile without a clone_repo call, and over
\* the whole run no directory receives the contents of more than one clone.
C3_CloneIdempotent ==
    /\ pc = "clone" => ~clones[DirOf(idx)].exists
    /\ \A i \in Contests :
          reused[i] =>
              /\ cloneCalls[i] = 0
              /\ cloneResult[i] = "none"
              /\ stage[i] \in {"acquired", "compiling", "processed", "panicked"}
              /\ stage[i] \in {"compiling", "processed", "panicked"} => compileCalls[i] = 1
    /\ \A n \in RepoNames : populated[n] <= 1

\* two contests with different URLs ending in the same name: the first was
\* cloned, the second reused the directory and was compiled from it
C3_Witness ==
    \E i, j \in Contests :
        /\ i < j
        /\ contests[i].repo # None /\ contests[j].repo # None
        /\ contests[i].repo # contests[j].repo
        /\ DirOf(i) = DirOf(j)
        /\ cloneResult[i] = "ok"
        /\ reused[j]
        /\ compileCalls[j] = 1
        /\ stage[j] = "processed"

\* C10: the loop is sequential and retry-free: per contest clone_repo and
\* compile_contracts_from_repo are each called at most once, compile is only
\* called once the acquisition (a returned clone or a reused directory) is
\* over, contests before the current one are finished or skipped and contests
\* after it are untouched.
C10_SequentialNoRetry ==
    /\ \A i \in Contests :
          /\ cloneCalls[i] <= 1
          /\ compileCalls[i] <= 1
          /\ compileCalls[i] = 1 => (reused[i] \/ cloneResult[i] \in {"ok", "panic"})
          /\ stage[i] = "acquiring" => compileCalls[i] = 0
          /\ i < idx => stage[i] \in {"processed", "skipped"}
          /\ i > idx => /\ stage[i] = "pending"
                        /\ cloneCalls[i] = 0
                        /\ compileCalls[i] = 0
    /\ pc \in {"clone", "acquired", "compile"} => idx \in Contests

\* a run over two contests that ended: the first was cloned and then
\* compiled, the second was handled after it
C10_Witness ==
    /\ pc = "done"
    /\ Len(contests) = 2
    /\ cloneCalls[1] = 1 /\ compileCalls[1] = 1 /\ stage[1] = "processed"
    /\ stage[2] \in {"processed", "skipped"}
    /\ cloneCalls[2] = 1

\* ------------------------------------------------------------------------
\* Properties of get_active_contests / is_active_and_public
\* ------------------------------------------------------------------------
Examined == 1..Len(evalAt)

Selected == { selected[k] : k \in 1..Len(selected) }

\* the eligibility condition: end_time is an RFC 3339 instant strictly after
\* t and code_access is "public"
EligibleAt(r, t) ==
    /\ r.end_time # None
    /\ r.end_time.val.kind = "rfc3339"
    /\ r.end_time.val.local - r.end_time.val.offset > t
    /\ r.code_access = Some("public")

BadEndTime(r) == r.end_time = None \/ r.end_time.val.kind # "rfc3339"

\* C4: a deserialized record passes the filter iff its end_time parses as an
\* RFC 3339 instant strictly after the clock reading it was compared with and
\* its code_access is "public".
C4_PassesIffActiveAndPublic ==
    \A i \in Examined :
        Deserializes(records[i]) =>
            (i \in Selected <=> EligibleAt(records[i], evalAt[i]))

\* one record passed through a non-zero UTC offset, a public record ending
\* exactly at the clock reading was excluded, and so was a future private one
C4_Witness ==
    /\ fpc = "returned"
    /\ \E i \in Selected : records[i].end_time.val.offset # 0
    /\ \E j \in Examined \ Selected :
          /\ Deserializes(records[j])
          /\ ~BadEndTime(records[j])
          /\ \/ /\ records[j].end_time.val.local - records[j].end_time.val.offset = evalAt[j]
                /\ records[j].code_access = Some("public")
             \/ /\ records[j].end_time.val.local - records[j].end_time.val.offset > evalAt[j]
                /\ records[j].code_access = Some("private")

\* C5: a record whose end_time is malformed or missing is dropped and the
\* pass goes on with the remaining records; it never makes the pass fail.
C5_BadEndTimeIsDropped ==
    \A i \in Examined :
        (Deserializes(records[i]) /\ BadEndTime(records[i])) =>
            /\ i \notin Selected
            /\ panicAt # i

\* C6: every record of a pass is compared with the one clock reading taken
\* when the pass started, so the records a finished pass returns are a
\* function of the input and of that reading.
C6_OneClockReadingPerPass ==
    (fpc = "returned" /\ CleanedJson(scripts) = "array") =>
        Selected = { i \in 1..Len(records) :
                        Deserializes(records[i]) /\ EligibleAt(records[i], startNow) }

\* C9: with no marker block or with unparsable text the extractor returns
\* an empty list and the process lives; with a payload that carries the
\* contest array, elements that do not deserialize are dropped and every
\* other element that is eligible is returned.
C9_ExtractorTolerant ==
    /\ ~ParsesAsJson(CleanedJson(scripts)) =>
          /\ fpc # "panicked"
          /\ fpc = "returned" => selected = <<>>
    /\ CleanedJson(scripts) = "array" =>
          /\ fpc # "panicked"
          /\ fpc = "returned" =>
                \A i \in 1..Len(records) :
                    /\ ~Deserializes(records[i]) => i \notin Selected
                    /\ (Deserializes(records[i]) /\ EligibleAt(records[i], now))
                          => i \in Selected

\* ------------------------------------------------------------------------
\* Properties of read_remappings_file
\* ------------------------------------------------------------------------
EqualsAt(str) == { i \in 1..Len(str) : str[i] = "=" }

FirstEquals(str) == CHOOSE i \in EqualsAt(str) : \A j \in EqualsAt(str) : i <= j

\* one entry per line that has an '=', cut at the first one
RECURSIVE CutAtFirstEquals(_, _)
CutAtFirstEquals(lines, dir) ==
    IF lines = <<>> THEN <<>>
    ELSE LET l == lines[1]
             rest == CutAtFirstEquals(Tail(lines), dir)
         IN  IF EqualsAt(l) # {}
             THEN <<[name |-> SubSeq(l, 1, FirstEquals(l) - 1),
                     path |-> dir \o <<"/">> \o SubSeq(l, FirstEquals(l) + 1, Len(l))]>>
                  \o rest
             ELSE rest

\* one entry per line that has exactly one '=', both sides trimmed
RECURSIVE CutAtOnlyEquals(_, _)
CutAtOnlyEquals(lines, dir) ==
    IF lines = <<>> THEN <<>>
    ELSE LET l == lines[1]
             rest == CutAtOnlyEquals(Tail(lines), dir)
         IN  IF Cardinality(EqualsAt(l)) = 1
             THEN <<[name |-> Trim(SubSeq(l, 1, FirstEquals(l) - 1)),
                     path |-> dir \o <<"/">>
                              \o Trim(SubSeq(l, FirstEquals(l) + 1, Len(l)))]>>
                  \o rest
             ELSE rest

\* C7 (as stated): the result holds, in file order and without merging, one
\* Remapping per line that splits at its first '=' into two parts, name the
\* left part and path the parent directory, a separator and the right part;
\* lines without '=' give nothing.
C7_SplitAtFirstEquals ==
    rpc = "returned" =>
        remappings = CutAtFirstEquals(Lines(file.val), Parent(file_path))

\* C7 (amended): the result holds, in file order and without merging, one
\* Remapping per line that contains exactly one '=', name the left part with
\* surrounding white space removed and path the parent directory, a
\* separator and the right part with surrounding white space removed; lines
\* with no '=' and lines with more than one '=' give nothing.
C7_ExactlyOneEquals ==
    rpc = "returned" =>
        remappings = CutAtOnlyEquals(Lines(file.val), Parent(file_path))

\* a file of two lines, one with two '=' that was dropped and one with a
\* single '=' that gave the only entry, under a parent directory
C7_Witness ==
    /\ rpc = "returned"
    /\ Len(Lines(file.val)) = 2
    /\ \E k \in 1..2 : Cardinality(EqualsAt(Lines(file.val)[k])) = 2
    /\ Len(remappings) = 1
    /\ remappings[1].name = <<"a">>
    /\ Parent(file_path) # <<>>

\* ------------------------------------------------------------------------
\* Properties of get_contracts_bytecodes
\* ------------------------------------------------------------------------
HexValue(c) == CHOOSE v \in 0..15 : HexDigits[v + 1] = c

RECURSIVE HexDecode(_)
HexDecode(str) ==
    IF Len(str) < 2 THEN <<>>
    ELSE <<16 * HexValue(str[1]) + HexValue(str[2])>> \o HexDecode(SubSeq(str, 3, Len(str)))

IsLinked(contract) ==
    /\ contract.evm # None
    /\ contract.evm.val.bytecode # None
    /\ contract.evm.val.bytecode.val.object = "Bytecode"

\* the contracts registered under the looked-up file name whose bytecode
\* object is linked
LinkedNames ==
    IF filename \in DOMAIN artifacts
    THEN { n \in DOMAIN artifacts[filename] : IsLinked(artifacts[filename][n]) }
    ELSE {}

\* C8: the result lists exactly the linked contracts of the file, each once,
\* with the hex encoding of its bytes; it is None, never an empty list,
\* exactly when the file has no linked contract or is not in the map.
C8_ExactlyLinkedBytecodes ==
    bpc = "returned" =>
        /\ bytecodes = None <=> LinkedNames = {}
        /\ bytecodes # None =>
              LET list == bytecodes.val
              IN  /\ list # <<>>
                  /\ Len(list) = Cardinality(LinkedNames)
                  /\ { list[k][1] : k \in 1..Len(list) } = LinkedNames
                  /\ \A k \in 1..Len(list) :
                        LET bytes == artifacts[filename][list[k][1]].evm.val.bytecode.val.bytes
                        IN  /\ Len(list[k][2]) = 2 * Len(bytes)
                            /\ HexDecode(list[k][2]) = bytes

\* a file with a linked Foo (bytes de ad) and an unlinked Bar: only Foo is
\* returned, as "dead"
C8_Witness ==
    /\ bpc = "returned"
    /\ filename \in DOMAIN artifacts
    /\ DOMAIN artifacts[filename] = {"Foo", "Bar"}
    /\ artifacts[filename]["Bar"] = [evm |-> Some([bytecode |-> Some([object |-> "Unlinked"])])]
    /\ bytecodes = Some(<< <<"Foo", <<"d", "e", "a", "d">>>> >>)

====
